---- MODULE Spec2Model ----
(***************************************************************************)
(* Model of SERVER_CODE.js: the socket.io game server with its in-memory   *)
(* players Map, the login / player_move / player_shoot / disconnect        *)
(* handlers, the hitscan (raySphere) and the PostgreSQL players table.     *)
(*                                                                         *)
(* Units: lengths are whole centimetres (0.5 m = 50), times are            *)
(* milliseconds.  Ray directions are drawn from axis-aligned vectors, for  *)
(* which vNorm and the square root in raySphere are exact on the grid of   *)
(* positions used here.  A vector names its NaN coordinates in the field   *)
(* nan (a player_move payload with fewer than three components); a value   *)
(* that may be null or absent is a sequence of length 0 or 1.              *)
(***************************************************************************)
EXTENDS Integers, Sequences, FiniteSets, TLC

\* ------------------------------------------------------------------ bounds
NumConns == 2
MaxTime == 1250
DuelMaxTime == 1500
MaxStat == 1
MaxSessionStat == 0
MaxPendingLogins == 1

\* -------------------------------------------------------- program constants
SHOT_COOLDOWN_MS == 250
MAX_RAY_DISTANCE == 100
PLAYER_RADIUS == 50
PLAYER_HEIGHT == 180
DAMAGE == 34
StartMs == 1000

Conns == 1..NumConns
Users == {"ann"}
\* null / undefined, and a present value
Null == <<>>
Some(x) == <<x>>
Val(o) == o[1]

vec(x, y, z) == [x |-> x, y |-> y, z |-> z, nan |-> {}]
HasNaN(a) == a.nan # {}
vSub(a, b) ==
  [x |-> a.x - b.x, y |-> a.y - b.y, z |-> a.z - b.z, nan |-> a.nan \cup b.nan]
vDot(a, b) == a.x * b.x + a.y * b.y + a.z * b.z

\* Math.sqrt on the integers: the largest r with r*r <= n (Newton's iteration)
RECURSIVE SqrtFrom(_, _)
SqrtFrom(n, x) ==
  LET y == (x + n \div x) \div 2
  IN  IF y >= x THEN x ELSE SqrtFrom(n, y)
Sqrt(n) == IF n = 0 THEN 0 ELSE SqrtFrom(n, n)

vLen(a) == Sqrt(vDot(a, a))
vNorm(a) ==
  LET l == IF vLen(a) = 0 THEN 1 ELSE vLen(a)
  IN  vec(a.x \div l, a.y \div l, a.z \div l)

\* Ray-sphere intersection: nearest t >= 0, or Null.
\* A NaN coordinate makes c and disc NaN, every comparison false: Null.
\* a = 0 (zero direction) makes t1 and t2 NaN (0/0): Null.
raySphere(origin, dir, center, radius) ==
  LET oc == vSub(origin, center) IN
  IF HasNaN(oc) \/ HasNaN(dir) THEN Null
  ELSE
    LET a == vDot(dir, dir)
        b == 2 * vDot(oc, dir)
        c == vDot(oc, oc) - radius * radius
        disc == b * b - 4 * a * c
    IN  IF disc < 0 THEN Null
        ELSE IF a = 0 THEN Null
        ELSE
          LET sqrt == Sqrt(disc)
              t1 == (0 - b - sqrt) \div (2 * a)
              t2 == (0 - b + sqrt) \div (2 * a)
          IN  IF t1 >= 0 THEN Some(t1)
              ELSE IF t2 >= 0 THEN Some(t2)
              ELSE Null

\* ------------------------------------------------------ inputs (bounded)
\* spawn: Math.random()*8-4 for x and z, y = 1; yaw Math.random()*360
SpawnPoints == {vec(0, 100, 0), vec(400, 100, 0)}
\* the session and repeated-login specifications draw one spawn point
SessionSpawnPoints == {vec(0, 100, 0)}
SpawnYaws == {0}
SpawnRots == {vec(0, yaw, 0) : yaw \in SpawnYaws}

\* login payloads: data missing, a field missing, or {username, password}
\* (whether the password matches the stored hash is drawn when
\* bcrypt.compare completes)
LoginPayloads ==
  {[kind |-> "missing"]}
  \cup {[kind |-> "creds", username |-> u] : u \in Users \cup {"ghost"}}

\* player_move payloads: data missing, pos or rot missing, arrays
MovePayloads ==
  { [kind |-> "missing"],
    [kind |-> "arrays", pos |-> <<500, 100, 0>>, rot |-> <<0, 0, 0>>] }

\* player_shoot payloads: range is a number of metres, or absent
ShootPayloads ==
  { [kind |-> "missing"],
    [kind |-> "arrays", origin |-> <<0, 208, 0>>, dir |-> <<1, 0, 0>>,
     range |-> Null],
    [kind |-> "arrays", origin |-> <<0, 100, 0>>, dir |-> <<1, 0, 0>>,
     range |-> Some(50)] }

\* the richer payloads of the arena specification
ArenaMovePayloads ==
  { [kind |-> "missing"],
    [kind |-> "nopos"],
    [kind |-> "norot"],
    [kind |-> "arrays", pos |-> <<500, 100, 0>>, rot |-> <<0, 90, 0>>],
    [kind |-> "arrays", pos |-> <<20100, 100, 0>>, rot |-> <<0, 90, 0>>],
    [kind |-> "arrays", pos |-> <<500, 100>>, rot |-> <<0, 90, 0>>] }

ArenaShootPayloads ==
  { [kind |-> "missing"],
    [kind |-> "noorigin"],
    [kind |-> "nodir"] }
  \cup { [kind |-> "arrays", origin |-> <<0, 208, 0>>, dir |-> <<1, 0, 0>>,
          range |-> r] : r \in {Null, Some(0), Some(0 - 5), Some(1), Some(1000)} }
  \cup { [kind |-> "arrays", origin |-> <<0, 100, 0>>, dir |-> <<1, 0, 0>>,
          range |-> Some(50)],
         [kind |-> "arrays", origin |-> <<0, 208, 0>>, dir |-> <<0 - 2, 0, 0>>,
          range |-> Some(50)],
         [kind |-> "arrays", origin |-> <<0, 208, 0>>, dir |-> <<0, 0, 0>>,
          range |-> Some(50)] }

\* ------------------------------------------------------------------ state
VARIABLES
  conn,          \* socket -> "new" | "live" | "closed"
  players,       \* the players Map: sequence of [sid, p] in insertion order
  now,           \* Date.now()
  db,            \* players table: username -> [kills, deaths]
  pendingLogin,  \* login handlers suspended at an await
  pendingFlush,  \* UPDATE queries issued on a kill, not yet completed
  pendingDisc,   \* disconnect handlers suspended at the await
  out,           \* the messages emitted by the last step, in order
  lastAccepted,  \* history: socket -> time of its last accepted shot
  known          \* history: socket -> the player ids its client was told of

vars == <<conn, players, now, db, pendingLogin, pendingFlush, pendingDisc, out, lastAccepted, known>>

\* ---------------------------------------------------------------- the Map
Sids(m) == {m[i].sid : i \in 1..Len(m)}
MapHas(m, sid) == sid \in Sids(m)
MapIndex(m, sid) == CHOOSE i \in 1..Len(m) : m[i].sid = sid
MapGet(m, sid) == m[MapIndex(m, sid)].p
MapSet(m, sid, p) ==
  IF MapHas(m, sid)
  THEN [m EXCEPT ![MapIndex(m, sid)] = [sid |-> sid, p |-> p]]
  ELSE Append(m, [sid |-> sid, p |-> p])
\* (mutation: the entry is not deleted)
MapDelete_Keep(m, sid) == m

MapDelete(m, sid) ==
  IF MapHas(m, sid)
  THEN [i \in 1..(Len(m) - 1) |->
          IF i < MapIndex(m, sid) THEN m[i] ELSE m[i + 1]]
  ELSE m

\* ---------------------------------------------------------------- emitters
Live == {c \in DOMAIN conn : conn[c] = "live"}
\* socket.emit: to this socket, dropped when it is closed
ToSocket(c) == IF conn[c] = "live" THEN {c} ELSE {}
\* (mutation: the sender is not left out)
ToOthers_All(c) == Live

\* socket.broadcast.emit: every connected socket but this one
ToOthers(c) == Live \ {c}
\* (mutation: io.emit reaches nobody)
ToAll_None == {}

\* io.emit: every connected socket
ToAll == Live

\* const [x, y, z] = a; {x: x*1.0, ...}: a missing element gives NaN
Elem(a, i) == IF i <= Len(a) THEN a[i] ELSE 0
FromArray(a) ==
  [x |-> Elem(a, 1), y |-> Elem(a, 2), z |-> Elem(a, 3),
   nan |-> {i \in 1..3 : i > Len(a)}]

\* The view a client keeps of the other players: the ids of its most recent
\* login_success, plus those of the spawn_player and minus those of the
\* player_disconnected messages received after it; Null before the first
\* login_success and once the socket is closed.
RECURSIVE ViewFrom(_, _, _, _)
ViewFrom(v, c, msgs, i) ==
  IF i > Len(msgs) THEN v
  ELSE
    LET msg == msgs[i]
        w == IF c \notin msg.to THEN v
             ELSE IF msg.type = "login_success"
             THEN Some({msg.players[j].id : j \in 1..Len(msg.players)})
             ELSE IF v = Null THEN v
             ELSE IF msg.type = "spawn_player" THEN Some(Val(v) \cup {msg.id})
             ELSE IF msg.type = "player_disconnected" THEN Some(Val(v) \ {msg.id})
             ELSE v
    IN  ViewFrom(w, c, msgs, i + 1)

\* every step delivers its messages to the clients of the open sockets
Track ==
  known' = [c \in DOMAIN conn |->
              IF conn'[c] # "live" THEN Null ELSE ViewFrom(known[c], c, out', 1)]

Init ==
  /\ conn = [c \in Conns |-> "new"]
  /\ players = <<>>
  /\ now = StartMs
  /\ db = [u \in Users |-> [kills |-> 0, deaths |-> 0]]
  /\ pendingLogin = {}
  /\ pendingFlush = {}
  /\ pendingDisc = {}
  /\ out = <<>>
  /\ lastAccepted = [c \in Conns |-> Null]
  /\ known = [c \in Conns |-> Null]

\* io.on('connection'): socket ids are handed out in order
Connect(c) ==
  /\ conn[c] = "new"
  /\ \A d \in DOMAIN conn : d < c => conn[d] # "new"
  /\ conn' = [conn EXCEPT ![c] = "live"]
  /\ out' = <<>>
  /\ UNCHANGED <<players, now, db, pendingLogin, pendingFlush, pendingDisc, lastAccepted>>
  /\ Track

\* the clock advances between events
TickSteps == {250}
Tick(maxTime) ==
  /\ \E d \in TickSteps :
       /\ now + d <= maxTime
       /\ now' = now + d
  /\ out' = <<>>
  /\ UNCHANGED <<conn, players, db, pendingLogin, pendingFlush, pendingDisc, lastAccepted>>
  /\ Track

\* ------------------------------------------------------------------ login
LoginError(c, text) == [type |-> "login_error", to |-> ToSocket(c), message |-> text]

\* socket.on('login'), up to the first await (pool.query)
Login(c, data) ==
  /\ conn[c] = "live"
  /\ IF data.kind = "missing"
     THEN /\ out' = <<LoginError(c, "Missing credentials.")>>
          /\ UNCHANGED pendingLogin
     ELSE /\ Cardinality(pendingLogin) < MaxPendingLogins
          /\ pendingLogin' = pendingLogin \cup
               {[sid |-> c, stage |-> "query", username |-> data.username,
                 row |-> Null]}
          /\ out' = <<>>
  /\ UNCHANGED <<conn, players, now, db, pendingFlush, pendingDisc, lastAccepted>>
  /\ Track

\* the SELECT completes: it throws, finds no row, or yields the row;
\* then the handler is suspended at the second await (bcrypt.compare)
LoginQueryDone(l, throws) ==
  /\ l \in pendingLogin
  /\ l.stage = "query"
  /\ IF throws
     THEN /\ pendingLogin' = pendingLogin \ {l}
          /\ out' = <<LoginError(l.sid, "Server error. Try again later.")>>
     ELSE IF l.username \notin Users
     THEN /\ pendingLogin' = pendingLogin \ {l}
          /\ out' = <<LoginError(l.sid, "Invalid username or password.")>>
     ELSE /\ pendingLogin' = (pendingLogin \ {l}) \cup
               {[l EXCEPT !.stage = "bcrypt",
                          !.row = Some([username |-> l.username,
                                        kills |-> db[l.username].kills,
                                        deaths |-> db[l.username].deaths])]}
          /\ out' = <<>>
  /\ UNCHANGED <<conn, players, now, db, pendingFlush, pendingDisc, lastAccepted>>
  /\ Track

\* others: every entry of the Map but this socket's, in Map order
RECURSIVE OthersFrom(_, _, _)
OthersFrom(m, i, c) ==
  IF i > Len(m) THEN <<>>
  ELSE IF m[i].sid = c THEN OthersFrom(m, i + 1, c)
  ELSE <<[id |-> m[i].sid, username |-> m[i].p.username,
          pos |-> m[i].p.pos, rot |-> m[i].p.rot]>> \o OthersFrom(m, i + 1, c)
\* (mutation: this socket's own entry is not skipped)
Others_WithSelf(m, c) == OthersFrom(m, 1, 0)

Others(m, c) == OthersFrom(m, 1, c)

\* the player record built on a successful login
NewPlayer(row, pos, rot) ==
  [username |-> row.username, pos |-> pos, rot |-> rot,
   kills |-> row.kills, deaths |-> row.deaths, hp |-> 100, lastShot |-> 0]

\* bcrypt.compare completes; on success the rest of the handler runs
LoginCompareDone(l, ok, pos, rot) ==
  /\ l \in pendingLogin
  /\ l.stage = "bcrypt"
  /\ pendingLogin' = pendingLogin \ {l}
  /\ IF ~ok
     THEN /\ out' = <<LoginError(l.sid, "Invalid username or password.")>>
          /\ UNCHANGED players
     ELSE LET player == NewPlayer(Val(l.row), pos, rot)
              m == MapSet(players, l.sid, player)
              others == Others(m, l.sid)
          IN  /\ players' = m
              /\ out' = << [type |-> "login_success", to |-> ToSocket(l.sid),
                            id |-> l.sid, username |-> player.username,
                            kills |-> player.kills, deaths |-> player.deaths,
                            pos |-> pos, rot |-> rot, players |-> others],
                           [type |-> "spawn_player", to |-> ToOthers(l.sid),
                            id |-> l.sid, username |-> player.username,
                            pos |-> player.pos, rot |-> player.rot],
                           [type |-> "world_state", to |-> ToSocket(l.sid),
                            players |-> others] >>
  /\ UNCHANGED <<conn, now, db, pendingFlush, pendingDisc, lastAccepted>>
  /\ Track

\* ------------------------------------------------------------ player_move
MoveOk(data) == data.kind = "arrays"

PlayerMove(c, data) ==
  /\ conn[c] = "live"
  /\ IF ~MapHas(players, c) \/ ~MoveOk(data)
     THEN /\ out' = <<>>
          /\ UNCHANGED players
     ELSE LET player == MapGet(players, c)
              moved == [player EXCEPT !.pos = FromArray(data.pos),
                                      !.rot = FromArray(data.rot)]
          IN  /\ players' = MapSet(players, c, moved)
              /\ out' = << [type |-> "player_moved", to |-> ToOthers(c),
                            id |-> c, pos |-> moved.pos, rot |-> moved.rot] >>
  /\ UNCHANGED <<conn, now, db, pendingLogin, pendingFlush, pendingDisc, lastAccepted>>
  /\ Track

\* ----------------------------------------------------------- player_shoot
ShootOk(data) == data.kind = "arrays"

\* now - player.lastShot < SHOT_COOLDOWN_MS
CooldownActive(player, t) == t - player.lastShot < SHOT_COOLDOWN_MS

Min(a, b) == IF a < b THEN a ELSE b
Max(a, b) == IF a > b THEN a ELSE b

\* Math.min(Math.max(data.range || MAX_RAY_DISTANCE, 1), 200), in metres:
\* an absent range and the number 0 are both falsy
maxDist(range) ==
  LET r == IF range = Null \/ Val(range) = 0 THEN MAX_RAY_DISTANCE ELSE Val(range)
  IN  Min(Max(r, 1), 200)

\* metres to the centimetres t is measured in
Cm(m) == m * 100

\* (mutation: the sphere centred at the feet)
ChestCenter_AtFeet(p) == p.pos

\* center at chest height: pos.y + PLAYER_HEIGHT*0.6
ChestCenter(p) == [p.pos EXCEPT !.y = @ + (PLAYER_HEIGHT * 6) \div 10]

\* (mutation: the comparison reversed, the farthest hit wins)
Closer_Farther(t, closestT) == closestT = Null \/ t > Val(closestT)

\* t < closestT, closestT starting at Infinity (Null here)
Closer(t, closestT) == closestT = Null \/ t < Val(closestT)

\* (mutation: the shooter is not skipped)
IsSelf_Never(sid, c) == FALSE

\* if (sid === socket.id) continue; // don't hit self
IsSelf(sid, c) == sid = c

\* the hitscan loop over the Map, from entry i on
RECURSIVE HitscanFrom(_, _, _, _, _, _, _)
HitscanFrom(m, i, c, origin, dir, dist, best) ==
  IF i > Len(m) THEN best
  ELSE IF IsSelf(m[i].sid, c) THEN HitscanFrom(m, i + 1, c, origin, dir, dist, best)
  ELSE
    LET t == raySphere(origin, dir, ChestCenter(m[i].p), PLAYER_RADIUS)
        next == IF t # Null /\ Val(t) >= 0 /\ Val(t) <= Cm(dist)
                   /\ Closer(Val(t), best.closestT)
                THEN [closestT |-> t, targetSid |-> Some(m[i].sid)]
                ELSE best
    IN  HitscanFrom(m, i + 1, c, origin, dir, dist, next)

Hitscan(m, c, data) ==
  HitscanFrom(m, 1, c, FromArray(data.origin), vNorm(FromArray(data.dir)),
              maxDist(data.range), [closestT |-> Null, targetSid |-> Null])

\* (mutation: no floor at 0)
Damaged_NoFloor(hp) == hp - DAMAGE

\* target.hp -= DAMAGE; if (target.hp < 0) target.hp = 0
Damaged(hp) == IF hp - DAMAGE < 0 THEN 0 ELSE hp - DAMAGE

\* kills and deaths stay within a bound of the model
StatsWithin(m, max) ==
  \A i \in 1..Len(m) : m[i].p.kills <= max /\ m[i].p.deaths <= max

\* (mutation: the credit forgotten)
Credit_None(n) == n

\* player.kills += 1; target.deaths += 1
Credit(n) == n + 1

\* (mutation: the respawn moves the victim but leaves its hp at 0)
Respawned_NoHeal(victim, spawn) == [victim EXCEPT !.pos = spawn]

\* target.hp = 100; target.pos = a fresh spawn point
Respawned(victim, spawn) == [victim EXCEPT !.hp = 100, !.pos = spawn]

\* the hit branch: damage, player_hit, and on hp <= 0 the kill and respawn
ApplyHit(m, c, sid, spawn) ==
  LET hp == Damaged(MapGet(m, sid).hp)
      m1 == MapSet(m, sid, [MapGet(m, sid) EXCEPT !.hp = hp])
      hit == [type |-> "player_hit", to |-> ToAll,
              attackerId |-> c, targetId |-> sid, hp |-> hp]
  IN  IF hp <= 0
      THEN
        LET m2 == MapSet(m1, c, [MapGet(m1, c) EXCEPT !.kills = Credit(@)])
            m3 == MapSet(m2, sid, [MapGet(m2, sid) EXCEPT !.deaths = Credit(@)])
            killer == MapGet(m3, c)
            victim == MapGet(m3, sid)
            m4 == MapSet(m3, sid, Respawned(victim, spawn))
        IN  [players |-> m4,
             flush |-> {[username |-> killer.username, field |-> "kills",
                         value |-> killer.kills],
                        [username |-> victim.username, field |-> "deaths",
                         value |-> victim.deaths]},
             out |-> << hit,
                        [type |-> "player_died", to |-> ToAll,
                         killerId |-> c, victimId |-> sid,
                         killerKills |-> killer.kills,
                         victimDeaths |-> victim.deaths],
                        [type |-> "player_moved", to |-> ToAll, id |-> sid,
                         pos |-> spawn, rot |-> victim.rot] >>]
      ELSE [players |-> m1, flush |-> {}, out |-> <<hit>>]

PlayerShoot(c, data, spawn) ==
  /\ conn[c] = "live"
  /\ IF ~MapHas(players, c) \/ ~ShootOk(data)
     THEN /\ out' = <<>>
          /\ UNCHANGED <<players, pendingFlush, lastAccepted>>
     ELSE IF CooldownActive(MapGet(players, c), now)
     THEN /\ out' = <<>>
          /\ UNCHANGED <<players, pendingFlush, lastAccepted>>
     ELSE LET m == MapSet(players, c, [MapGet(players, c) EXCEPT !.lastShot = now])
              targetSid == Hitscan(m, c, data).targetSid
          IN  /\ lastAccepted' = [lastAccepted EXCEPT ![c] = Some(now)]
              /\ IF targetSid = Null
                 THEN /\ players' = m
                      /\ out' = <<>>
                      /\ UNCHANGED pendingFlush
                 ELSE LET r == ApplyHit(m, c, Val(targetSid), spawn)
                      IN  /\ players' = r.players
                          /\ out' = r.out
                          /\ pendingFlush' = pendingFlush \cup r.flush
  /\ UNCHANGED <<conn, now, db, pendingLogin, pendingDisc>>
  /\ Track

\* an UPDATE issued on a kill completes or fails (the failure is logged)
KillFlushDone(f, fails) ==
  /\ f \in pendingFlush
  /\ pendingFlush' = pendingFlush \ {f}
  /\ db' = IF fails THEN db ELSE [db EXCEPT ![f.username][f.field] = f.value]
  /\ out' = <<>>
  /\ UNCHANGED <<conn, players, now, pendingLogin, pendingDisc, lastAccepted>>
  /\ Track

\* ------------------------------------------------------------- disconnect
\* (mutation: an UPDATE is issued whether or not the socket has a player)
Leaving_Unguarded(m, c) ==
  {[sid |-> c, username |-> "ann", kills |-> 0, deaths |-> 0]}

\* const player = players.get(socket.id); if (!player) return;
\* otherwise the UPDATE carries the player's kills and deaths
Leaving(m, c) ==
  IF ~MapHas(m, c) THEN {}
  ELSE LET player == MapGet(m, c)
       IN  {[sid |-> c, username |-> player.username,
             kills |-> player.kills, deaths |-> player.deaths]}

\* socket.on('disconnect'), up to the await of the UPDATE
Disconnect(c) ==
  /\ conn[c] = "live"
  /\ conn' = [conn EXCEPT ![c] = "closed"]
  /\ pendingDisc' = pendingDisc \cup Leaving(players, c)
  /\ out' = <<>>
  /\ UNCHANGED <<players, now, db, pendingLogin, pendingFlush, lastAccepted>>
  /\ Track

\* (mutation: players.delete inside the try block, skipped when the UPDATE throws)
Removed_UnlessFailed(m, sid, fails) == IF fails THEN m ELSE MapDelete(m, sid)

\* try { await UPDATE } catch (err) { log }; players.delete(socket.id)
Removed(m, sid, fails) == MapDelete(m, sid)

\* the UPDATE completes or throws (caught); then delete and broadcast
DisconnectFlushDone(d, fails) ==
  /\ d \in pendingDisc
  /\ pendingDisc' = pendingDisc \ {d}
  /\ db' = IF fails THEN db
           ELSE [db EXCEPT ![d.username] = [kills |-> d.kills, deaths |-> d.deaths]]
  /\ players' = Removed(players, d.sid, fails)
  /\ out' = << [type |-> "player_disconnected", to |-> ToOthers(d.sid),
                id |-> d.sid] >>
  /\ UNCHANGED <<conn, now, pendingLogin, pendingFlush, lastAccepted>>
  /\ Track

\* ------------------------------------------------------------------- Next
Next ==
  \/ \E c \in Conns : Connect(c)
  \/ Tick(MaxTime)
  \/ \E c \in Conns, data \in LoginPayloads : Login(c, data)
  \/ \E l \in pendingLogin, throws \in BOOLEAN : LoginQueryDone(l, throws)
  \/ \E l \in pendingLogin, ok \in BOOLEAN, pos \in SessionSpawnPoints, rot \in SpawnRots :
       LoginCompareDone(l, ok, pos, rot)
  \/ \E c \in Conns, data \in MovePayloads : PlayerMove(c, data)
  \/ \E c \in Conns, data \in ShootPayloads, spawn \in SessionSpawnPoints :
       PlayerShoot(c, data, spawn) /\ StatsWithin(players', MaxSessionStat)
  \/ \E c \in Conns : Disconnect(c)
  \/ \E d \in pendingDisc, fails \in BOOLEAN : DisconnectFlushDone(d, fails)

Spec == Init /\ [][Next]_vars

\* ---------------------------------------------------------------- the duel
\* Two sockets connected and logged in: they move and shoot, the clock runs
\* and the kill updates complete.
Registered(cs, spawnOf) ==
  [i \in 1..Cardinality(cs) |->
     [sid |-> i,
      p |-> NewPlayer([username |-> "ann", kills |-> 0, deaths |-> 0],
                      spawnOf[i], vec(0, 0, 0))]]

InitDuel ==
  /\ conn = [c \in Conns |-> "live"]
  /\ players \in {Registered(Conns, sp) : sp \in [Conns -> SpawnPoints]}
  /\ now = StartMs
  /\ db = [u \in Users |-> [kills |-> 0, deaths |-> 0]]
  /\ pendingLogin = {}
  /\ pendingFlush = {}
  /\ pendingDisc = {}
  /\ out = <<>>
  /\ lastAccepted = [c \in Conns |-> Null]
  /\ known = [c \in Conns |-> Some(Sids(players) \ {c})]

NextDuel ==
  \/ Tick(DuelMaxTime)
  \/ \E c \in Conns, data \in MovePayloads : PlayerMove(c, data)
  \/ \E c \in Conns, data \in ShootPayloads, spawn \in SpawnPoints :
       PlayerShoot(c, data, spawn) /\ StatsWithin(players', MaxStat)
  \/ \E f \in pendingFlush, fails \in BOOLEAN : KillFlushDone(f, fails)

SpecDuel == InitDuel /\ [][NextDuel]_vars

\* ----------------------------------------------------- the repeated login
\* Two sockets connected and logged in, at one instant of time: they shoot
\* and log in again, and the kill updates complete.
NextRelogin ==
  \/ \E c \in Conns, data \in ShootPayloads, spawn \in SessionSpawnPoints :
       PlayerShoot(c, data, spawn) /\ StatsWithin(players', MaxStat)
  \/ \E f \in pendingFlush, fails \in BOOLEAN : KillFlushDone(f, fails)
  \/ \E c \in Conns, data \in LoginPayloads : Login(c, data)
  \/ \E l \in pendingLogin, throws \in BOOLEAN : LoginQueryDone(l, throws)
  \/ \E l \in pendingLogin, ok \in BOOLEAN, pos \in SessionSpawnPoints, rot \in SpawnRots :
       LoginCompareDone(l, ok, pos, rot)

SpecRelogin == InitDuel /\ [][NextRelogin]_vars

\* --------------------------------------------------------------- the arena
\* Three sockets connected and logged in at spawn points; richer payloads,
\* one instant of time.
NumArena == 3
ArenaConns == 1..NumArena

InitArena ==
  /\ conn = [c \in ArenaConns |-> "live"]
  /\ players \in {Registered(ArenaConns, sp) : sp \in [ArenaConns -> SpawnPoints]}
  /\ now = StartMs
  /\ db = [u \in Users |-> [kills |-> 0, deaths |-> 0]]
  /\ pendingLogin = {}
  /\ pendingFlush = {}
  /\ pendingDisc = {}
  /\ out = <<>>
  /\ lastAccepted = [c \in ArenaConns |-> Null]
  /\ known = [c \in ArenaConns |-> Some(Sids(players) \ {c})]

NextArena ==
  \/ \E c \in ArenaConns, data \in ArenaMovePayloads : PlayerMove(c, data)
  \/ \E c \in ArenaConns, data \in ArenaShootPayloads, spawn \in SpawnPoints :
       PlayerShoot(c, data, spawn)

SpecArena == InitArena /\ [][NextArena]_vars

\* ----------------------------------------------------------- the departure
\* Two sockets connected and logged in: they shoot and disconnect, the clock
\* runs, and the updates issued on a kill and on a disconnect complete or fail.
NextLeave ==
  \/ Tick(DuelMaxTime)
  \/ \E c \in Conns, data \in ShootPayloads, spawn \in SpawnPoints :
       PlayerShoot(c, data, spawn) /\ StatsWithin(players', MaxStat)
  \/ \E f \in pendingFlush, fails \in BOOLEAN : KillFlushDone(f, fails)
  \/ \E c \in Conns : Disconnect(c)
  \/ \E d \in pendingDisc, fails \in BOOLEAN : DisconnectFlushDone(d, fails)

SpecLeave == InitDuel /\ [][NextLeave]_vars

\* ================================================================== claims
Reg == Sids(players)
WellFormedShots(payloads) == {d \in payloads : ShootOk(d)}

\* the intersection parameter of data's ray with the chest sphere of sid
HitT(m, sid, data) ==
  raySphere(FromArray(data.origin), vNorm(FromArray(data.dir)),
            ChestCenter(MapGet(m, sid)), PLAYER_RADIUS)

\* sid is another player whose sphere is met at 0 <= t <= range
ValidTarget(m, c, sid, data, range) ==
  /\ sid # c
  /\ HitT(m, sid, data) # Null
  /\ Val(HitT(m, sid, data)) >= 0
  /\ Val(HitT(m, sid, data)) <= Cm(range)

\* C1: Disconnected is terminal: once the disconnect handler of a socket has
\* run to completion, the players Map holds no entry for that socket, so that
\* every key of the Map is a connection that is live (or is being removed).
C1_DisconnectedTerminal ==
  \A i \in 1..Len(players) :
    conn[players[i].sid] = "closed" => \E d \in pendingDisc : d.sid = players[i].sid

\* C2: a player_shoot arriving less than SHOT_COOLDOWN_MS after the socket's
\* previous accepted shot changes nothing in the Map and emits no message.
InCooldownOf(c) ==
  lastAccepted[c] # Null /\ now - Val(lastAccepted[c]) < SHOT_COOLDOWN_MS

C2_CooldownDrops ==
  [][\A c \in Conns, data \in ShootPayloads, spawn \in SessionSpawnPoints :
       (InCooldownOf(c) /\ PlayerShoot(c, data, spawn))
         => (players' = players /\ out' = <<>>)]_vars

\* C3: a shot that brings its target's hp to 0 adds exactly 1 to the shooter's
\* kills and to the victim's deaths, resets the victim's hp to 100 and puts the
\* victim at a spawn point (x, z in [-4,4] m, y = 1 m); a player_shoot that
\* brings no hp to 0 changes no kills and no deaths.
InSpawnArea(pos) ==
  /\ pos.nan = {}
  /\ pos.x >= 0 - 400 /\ pos.x <= 400
  /\ pos.z >= 0 - 400 /\ pos.z <= 400
  /\ pos.y = 100

C3_ShootStep(c) ==
  IF out' # <<>> /\ out'[1].type = "player_hit" /\ out'[1].hp = 0
  THEN LET v == out'[1].targetId
       IN  /\ MapGet(players', c).kills = MapGet(players, c).kills + 1
           /\ MapGet(players', v).deaths = MapGet(players, v).deaths + 1
           /\ MapGet(players', v).hp = 100
           /\ InSpawnArea(MapGet(players', v).pos)
           /\ \A d \in Reg :
                /\ d # c => MapGet(players', d).kills = MapGet(players, d).kills
                /\ d # v => MapGet(players', d).deaths = MapGet(players, d).deaths
  ELSE \A d \in Reg :
         /\ MapGet(players', d).kills = MapGet(players, d).kills
         /\ MapGet(players', d).deaths = MapGet(players, d).deaths

C3_KillCredit ==
  [][\A c \in Conns, data \in ShootPayloads, spawn \in SpawnPoints :
       PlayerShoot(c, data, spawn) => C3_ShootStep(c)]_vars

\* reached: a kill has just been applied and the victim respawned
C3_Witness ==
  /\ Len(out) = 3
  /\ out[1].type = "player_hit" /\ out[1].hp = 0
  /\ out[2].type = "player_died"
  /\ MapGet(players, out[2].killerId).kills = 1
  /\ MapGet(players, out[2].victimId).deaths = 1
  /\ MapGet(players, out[2].victimId).hp = 100
  /\ MapGet(players, out[2].victimId).pos \in SpawnPoints

\* C4: the hp of every player in the Map, and the hp carried by every
\* player_hit message, is an integer from 0 to 100.
C4_HealthRange ==
  /\ \A i \in 1..Len(players) : players[i].p.hp \in 0..100
  /\ \A i \in 1..Len(out) : out[i].type = "player_hit" => out[i].hp \in 0..100

\* reached: a hit on a player with less than DAMAGE hp left, floored at 0
C4_Witness ==
  \E i \in 1..Len(out) : out[i].type = "player_hit" /\ out[i].hp = 0

\* C5: for every well-formed shot of a registered socket, the target the
\* hitscan resolves is a player other than the shooter with 0 <= t <= range
\* and no other such player has a smaller t; it resolves no target exactly
\* when no such player exists.
C5_NearestTarget ==
  \A c \in Reg, data \in WellFormedShots(ArenaShootPayloads) :
    LET target == Hitscan(players, c, data).targetSid
        valid == {sid \in Reg : ValidTarget(players, c, sid, data, maxDist(data.range))}
    IN  IF target = Null
        THEN valid = {}
        ELSE /\ Val(target) \in valid
             /\ \A u \in valid :
                  Val(HitT(players, u, data)) >= Val(HitT(players, Val(target), data))

\* reached: a hit was just applied to the nearer of two players on the ray
C5_Witness ==
  /\ Len(out) = 1
  /\ out[1].type = "player_hit"
  /\ \E data \in WellFormedShots(ArenaShootPayloads), u \in Reg :
       /\ Hitscan(players, out[1].attackerId, data).targetSid = Some(out[1].targetId)
       /\ u # out[1].targetId
       /\ ValidTarget(players, out[1].attackerId, u, data, maxDist(data.range))
       /\ Val(HitT(players, u, data)) > Val(HitT(players, out[1].targetId, data))

\* C6: no self-hit: the attacker of a player_hit is never its target, the
\* killer of a player_died never its victim, and a player_shoot neither lowers
\* the shooter's own hp nor raises the shooter's own deaths.
C6_NoSelfHit ==
  /\ [](\A i \in 1..Len(out) :
          /\ out[i].type = "player_hit" => out[i].attackerId # out[i].targetId
          /\ out[i].type = "player_died" => out[i].killerId # out[i].victimId)
  /\ [][\A c \in Conns, data \in ShootPayloads, spawn \in SpawnPoints :
          (c \in Reg /\ PlayerShoot(c, data, spawn))
            => /\ MapGet(players', c).hp >= MapGet(players, c).hp
               /\ MapGet(players', c).deaths = MapGet(players, c).deaths]_vars

\* reached: a hit by a shooter whose ray also meets the shooter's own sphere
C6_Witness ==
  /\ out # <<>>
  /\ out[1].type = "player_hit"
  /\ \E data \in WellFormedShots(ShootPayloads) :
       /\ Hitscan(players, out[1].attackerId, data).targetSid = Some(out[1].targetId)
       /\ HitT(players, out[1].attackerId, data) # Null

\* C7: for every numeric range of a shoot payload the range used is the value
\* clamped to [1,200], min(max(range,1),200), and so no player whose t exceeds
\* the clamped range is resolved as the target.
Clamp(r) == Min(Max(r, 1), 200)

C7_RangeClamped ==
  \A c \in Reg, data \in WellFormedShots(ArenaShootPayloads) :
    data.range # Null =>
      LET target == Hitscan(players, c, data).targetSid
      IN  /\ maxDist(data.range) = Clamp(Val(data.range))
          /\ target # Null =>
               Val(HitT(players, Val(target), data)) <= Cm(Clamp(Val(data.range)))

\* C8: A at (0,1,0) shoots from (0,1,0) along (1,0,0) with range 50, outside
\* cooldown; B, the only other player, is at (5,1,0) with hp 100.
C8Shot ==
  [kind |-> "arrays", origin |-> <<0, 100, 0>>, dir |-> <<1, 0, 0>>,
   range |-> Some(50)]

C8Scene(a, b) ==
  /\ a # b
  /\ Reg = {a, b}
  /\ MapGet(players, a).pos = vec(0, 100, 0)
  /\ MapGet(players, b).pos = vec(500, 100, 0)
  /\ MapGet(players, b).hp = 100
  /\ ~CooldownActive(MapGet(players, a), now)

\* C8 as stated: the shot resolves to B and B's hp becomes 66.
C8_ScenarioHits ==
  [][\A a \in Conns, b \in Conns, spawn \in SpawnPoints :
       (C8Scene(a, b) /\ PlayerShoot(a, C8Shot, spawn))
         => /\ out' # <<>>
            /\ out'[1].type = "player_hit"
            /\ out'[1].targetId = b
            /\ MapGet(players', b).hp = 66]_vars

\* C8 as amended: the shot is accepted, resolves no target (the ray passes
\* 1.08 m below the centre of B's chest sphere of radius 0.5 m), emits no
\* message and leaves B's hp at 100.
C8_ScenarioMisses ==
  [][\A a \in Conns, b \in Conns, spawn \in SpawnPoints :
       (C8Scene(a, b) /\ PlayerShoot(a, C8Shot, spawn))
         => /\ out' = <<>>
            /\ MapGet(players', a).lastShot = now
            /\ MapGet(players', b).hp = 100
            /\ MapGet(players', b).pos = vec(500, 100, 0)]_vars

\* reached: A's shot of this instant was accepted and B, at (5,1,0), was
\* never hit
C8_Witness ==
  \E a \in Reg, b \in Reg :
    /\ a # b
    /\ Reg = {a, b}
    /\ out = <<>>
    /\ MapGet(players, a).pos = vec(0, 100, 0)
    /\ MapGet(players, a).lastShot = now
    /\ lastAccepted[a] = Some(now)
    /\ MapGet(players, b).pos = vec(500, 100, 0)
    /\ MapGet(players, b).hp = 100
    /\ MapGet(players, b).deaths = 0

\* C9: the hp of a player in the Map changes only by a hit from another
\* socket's shot (it decreases to the hp of the player_hit) or by the respawn
\* that follows its hp reaching 0 (it becomes 100); no other event changes it.
C9_HealthFrame ==
  [][\A c \in Reg \cap Sids(players') :
       MapGet(players', c).hp # MapGet(players, c).hp =>
         \E i \in 1..Len(out') :
           /\ out'[i].type = "player_hit"
           /\ out'[i].targetId = c
           /\ out'[i].attackerId # c
           /\ \/ /\ MapGet(players', c).hp < MapGet(players, c).hp
                 /\ MapGet(players', c).hp = out'[i].hp
              \/ /\ out'[i].hp = 0
                 /\ MapGet(players', c).hp = 100]_vars

\* C10: while a socket's player is in the Map its kills and deaths are
\* non-negative and never decrease from one state to the next.
C10_StatsMonotone ==
  [][\A c \in Reg \cap Sids(players') :
       /\ MapGet(players', c).kills >= MapGet(players, c).kills
       /\ MapGet(players', c).deaths >= MapGet(players, c).deaths
       /\ MapGet(players', c).kills >= 0
       /\ MapGet(players', c).deaths >= 0]_vars

\* C11: a player_move whose payload is missing, or lacks a 3-component pos or
\* a 3-component rot (absent, or an array of fewer than 3 components), is
\* ignored: the players Map is unchanged and no message is emitted.
MalformedMove(data) ==
  data.kind # "arrays" \/ Len(data.pos) < 3 \/ Len(data.rot) < 3

C11_MalformedMoveIgnored ==
  [][\A c \in ArenaConns, data \in ArenaMovePayloads :
       (MalformedMove(data) /\ PlayerMove(c, data))
         => (players' = players /\ out' = <<>>)]_vars

\* C12: a well-formed player_move of a registered socket X sets X's pos and
\* rot to the supplied values, leaves X's hp, kills, deaths and lastShot and
\* every other player's record unchanged, and emits exactly one player_moved
\* with X's id and the new values to every connected socket other than X.
WellFormedMove(data) ==
  data.kind = "arrays" /\ Len(data.pos) = 3 /\ Len(data.rot) = 3

Supplied(a) == vec(a[1], a[2], a[3])

C12_MoveStep(x, data) ==
  /\ Len(players') = Len(players)
  /\ \A i \in 1..Len(players) :
       IF players[i].sid = x
       THEN players'[i] = [sid |-> x,
                           p |-> [players[i].p EXCEPT !.pos = Supplied(data.pos),
                                                      !.rot = Supplied(data.rot)]]
       ELSE players'[i] = players[i]
  /\ out' = << [type |-> "player_moved",
                to |-> {d \in Conns : conn[d] = "live" /\ d # x},
                id |-> x, pos |-> Supplied(data.pos), rot |-> Supplied(data.rot)] >>

C12_MoveOverwrites ==
  [][\A x \in Conns, data \in MovePayloads :
       (MapHas(players, x) /\ WellFormedMove(data) /\ PlayerMove(x, data))
         => C12_MoveStep(x, data)]_vars

\* reached: a player has just moved away from its spawn point, another
\* player was left where it was, and the message went to the other socket
C12_Witness ==
  /\ Len(out) = 1
  /\ out[1].type = "player_moved"
  /\ out[1].to # {}
  /\ out[1].id \notin out[1].to
  /\ MapGet(players, out[1].id).pos = vec(500, 100, 0)
  /\ \E y \in Reg : y # out[1].id /\ MapGet(players, y).pos = vec(0, 100, 0)

\* C13: the disconnect handler does not wait for the UPDATE of the stats: in
\* the step that receives the disconnect event of a registered socket the
\* player leaves the players Map and player_disconnected is emitted to the
\* others, so that no later event of another socket finds the leaving player.
C13_DisconnectImmediate ==
  [][\A c \in Conns :
       (MapHas(players, c) /\ Disconnect(c))
         => /\ ~MapHas(players', c)
            /\ \E i \in 1..Len(out') :
                 out'[i].type = "player_disconnected" /\ out'[i].id = c]_vars

\* (the consequence C13 names: no player_hit lands on a player whose
\* disconnect handler is suspended at the UPDATE)
C13_NoHitOnLeaving ==
  \A i \in 1..Len(out) :
    out[i].type = "player_hit" => \A d \in pendingDisc : d.sid # out[i].targetId

\* C14: a failing UPDATE never changes the outcome: when an UPDATE issued on
\* a kill completes, with or without error, the players Map keeps the kill,
\* the death and the respawn and nothing is emitted; when the UPDATE issued
\* on a disconnect completes, with or without error, the player is removed
\* from the Map, the other entries are kept and player_disconnected goes to
\* the other sockets.
C14_FlushFailureHarmless ==
  [][/\ \A f \in pendingFlush, fails \in BOOLEAN :
          KillFlushDone(f, fails) => (players' = players /\ out' = <<>>)
     /\ \A d \in pendingDisc, fails \in BOOLEAN :
          DisconnectFlushDone(d, fails)
            => /\ Sids(players') = Sids(players) \ {d.sid}
               /\ \A s \in Sids(players') : MapGet(players', s) = MapGet(players, s)
               /\ out' = << [type |-> "player_disconnected",
                             to |-> {c \in Conns : conn[c] = "live" /\ c # d.sid},
                             id |-> d.sid] >>]_vars

\* reached: a kill was made, both of its UPDATEs failed, the killer
\* disconnected and its UPDATE failed too (the table still holds 0 and 0):
\* the victim keeps its death, the killer is gone and was announced as gone
C14_Witness ==
  /\ Len(out) = 1
  /\ out[1].type = "player_disconnected"
  /\ ~MapHas(players, out[1].id)
  /\ \E y \in Reg : MapGet(players, y).deaths = 1 /\ MapGet(players, y).hp = 100
  /\ db["ann"] = [kills |-> 0, deaths |-> 0]
  /\ pendingFlush = {}
  /\ pendingDisc = {}

\* C15: an accepted player_shoot that resolves no target emits nothing; one
\* that resolves a target emits exactly one player_hit (attacker, target,
\* resulting hp) to every connected socket, shooter and victim included; when
\* that hp is 0 it is followed, in this order and by nothing else, by one
\* player_died to every socket and one player_moved of the victim with its
\* new spawn position; and a player_died always comes right after a
\* player_hit with hp 0 of the same attacker and victim.
Accepted(c, data) ==
  MapHas(players, c) /\ ShootOk(data) /\ ~CooldownActive(MapGet(players, c), now)

Connected == {d \in DOMAIN conn : conn[d] = "live"}

C15_ShootOut(c, data) ==
  LET target == Hitscan(players, c, data).targetSid IN
  IF ~Accepted(c, data) \/ target = Null
  THEN out' = <<>>
  ELSE
    LET v == Val(target) IN
    /\ Len(out') \in {1, 3}
    /\ out'[1].type = "player_hit"
    /\ out'[1].attackerId = c
    /\ out'[1].targetId = v
    /\ out'[1].to = Connected
    /\ {c, v} \subseteq out'[1].to
    /\ out'[1].hp = (IF Len(out') = 1 THEN MapGet(players', v).hp ELSE 0)
    /\ out'[1].hp = 0 <=> Len(out') = 3
    /\ Len(out') = 3 =>
         /\ out'[2].type = "player_died"
         /\ out'[2].to = Connected
         /\ out'[2].killerId = c
         /\ out'[2].victimId = v
         /\ out'[3].type = "player_moved"
         /\ out'[3].to = Connected
         /\ out'[3].id = v
         /\ out'[3].pos = MapGet(players', v).pos
         /\ InSpawnArea(out'[3].pos)

SnapshotIds(msg) == {msg.players[j].id : j \in 1..Len(msg.players)}

C16_LoginStep(l, pos) ==
  LET x == l.sid IN
  /\ Sids(players') = Sids(players) \cup {x}
  /\ MapGet(players', x).hp = 100
  /\ MapGet(players', x).kills = Val(l.row).kills
  /\ MapGet(players', x).deaths = Val(l.row).deaths
  /\ MapGet(players', x).pos = pos
  /\ InSpawnArea(MapGet(players', x).pos)
  /\ Len(out') = 3
  /\ out'[1].type = "login_success"
  /\ out'[1].to = Connected \cap {x}
  /\ out'[1].id = x
  /\ out'[1].kills = Val(l.row).kills
  /\ out'[1].deaths = Val(l.row).deaths
  /\ SnapshotIds(out'[1]) = Sids(players') \ {x}
  /\ Len(out'[1].players) = Cardinality(Sids(players') \ {x})
  /\ out'[2].type = "spawn_player"
  /\ out'[2].id = x
  /\ out'[2].to = Connected \ {x}
  /\ out'[3].type = "world_state"
  /\ out'[3].to = Connected \cap {x}

C16_LoginInserts ==
  [][\A l \in pendingLogin, pos \in SessionSpawnPoints, rot \in SpawnRots :
       LoginCompareDone(l, TRUE, pos, rot) => C16_LoginStep(l, pos)]_vars

\* reached: a login has just succeeded for a user whose row holds one kill;
\* its snapshot lists the one other player
C16_Witness ==
  /\ Len(out) = 3
  /\ out[1].type = "login_success"
  /\ out[1].kills = 1
  /\ db["ann"].kills = 1
  /\ MapGet(players, out[1].id).kills = 1
  /\ MapGet(players, out[1].id).hp = 100
  /\ SnapshotIds(out[1]) = Reg \ {out[1].id}
  /\ Len(out[1].players) = 1
  /\ out[2].type = "spawn_player"
  /\ out[2].to = Conns \ {out[1].id}

\* C17: the pos of a registered player Y changes only in Y's own player_move
\* or in the respawn of a shot that brought Y's hp to 0; no other event of Y's
\* socket and no event of another socket changes it.
C17_PositionFrame ==
  [][\A y \in Reg \cap Sids(players') :
       MapGet(players', y).pos # MapGet(players, y).pos =>
         \/ \E data \in MovePayloads : PlayerMove(y, data)
         \/ \E i \in 1..Len(out') :
              out'[i].type = "player_died" /\ out'[i].victimId = y]_vars

\* C18: events of a socket that has no player in the Map are no-ops: its
\* player_move and player_shoot change nothing in the Map and emit nothing;
\* its disconnect removes nothing, issues no UPDATE and emits nothing (so no
\* player_disconnected follows).
C18_UnregisteredNoOp ==
  [][\A c \in Conns :
       ~MapHas(players, c) =>
         /\ \A data \in MovePayloads :
              PlayerMove(c, data) => (players' = players /\ out' = <<>>)
         /\ \A data \in ShootPayloads, spawn \in SessionSpawnPoints :
              PlayerShoot(c, data, spawn)
                => (players' = players /\ out' = <<>> /\ pendingFlush' = pendingFlush)
         /\ Disconnect(c)
              => /\ players' = players
                 /\ out' = <<>>
                 /\ pendingDisc' = pendingDisc
                 /\ db' = db]_vars

\* reached: socket 1 has just disconnected without a player (no login, or
\* a failed one): the Map is empty, no UPDATE is pending and nothing was
\* emitted.  (Had it had a player, its disconnect handler would be pending,
\* or would have ended by emitting player_disconnected.)
C18_Witness ==
  /\ conn[1] = "closed"
  /\ conn[2] = "new"
  /\ now = StartMs
  /\ players = <<>>
  /\ pendingLogin = {}
  /\ pendingDisc = {}
  /\ out = <<>>

\* C19: each hit lowers the target's hp by 34, floored at 0: 100 -> 66 ->
\* 32 -> 0, and the third hit is the one that kills; the respawn is part of
\* the same player_shoot, so between events every player's hp is 100, 66 or
\* 32 and never 0 (0 is only the hp of the killing shot's player_hit).
C19_HitStep ==
  out' # <<>> =>
    LET v == out'[1].targetId
        before == MapGet(players, v).hp
        after == MapGet(players', v).hp
        died == \E i \in 1..Len(out') :
                  out'[i].type = "player_died" /\ out'[i].victimId = v
    IN  /\ out'[1].type = "player_hit"
        /\ before = 100 => (out'[1].hp = 66 /\ after = 66 /\ ~died)
        /\ before = 66 => (out'[1].hp = 32 /\ after = 32 /\ ~died)
        /\ before = 32 => (out'[1].hp = 0 /\ after = 100 /\ died)

C19_DamageSequence ==
  /\ [](\A i \in 1..Len(players) : players[i].p.hp \in {100, 66, 32})
  /\ [][\A c \in Conns, data \in ShootPayloads, spawn \in SpawnPoints :
          PlayerShoot(c, data, spawn) => C19_HitStep]_vars

\* reached: the third hit on a player has just killed it (player_hit with
\* hp 0) and it is back at 100, while the other player stands at 66 or 32
C19_Witness ==
  /\ out # <<>>
  /\ out[1].type = "player_hit"
  /\ out[1].hp = 0
  /\ MapGet(players, out[1].targetId).hp = 100
  /\ MapGet(players, out[1].targetId).deaths = 1
  /\ MapGet(players, out[1].attackerId).hp \in {66, 32}

\* C20: in every state, for every connected socket C that has a player in
\* the Map, the ids C's client has been told of (those of its most recent
\* login_success, plus those of later spawn_player and minus those of later
\* player_disconnected messages) are exactly the keys of the Map other than
\* C, whatever logins and disconnects of other sockets are pending.
C20_ViewConsistent ==
  \A c \in Conns :
    (conn[c] = "live" /\ MapHas(players, c))
      => known[c] = Some(Sids(players) \ {c})

\* reached: C was told of the arrival of D by spawn_player after its own
\* login; D's socket has closed and its disconnect handler is suspended at
\* the UPDATE, so D is still in the Map and in C's view
C20_Witness ==
  \E c \in Conns, d \in Conns :
    /\ c < d
    /\ conn[c] = "live"
    /\ MapHas(players, c)
    /\ MapHas(players, d)
    /\ MapIndex(players, c) < MapIndex(players, d)
    /\ conn[d] = "closed"
    /\ \E e \in pendingDisc : e.sid = d
    /\ known[c] = Some({d})
====
